---- MODULE Spec2Model ----
(***************************************************************************)
(* catrepo: the file selection engine (walker.py) and the tree             *)
(* aggregation / rendering engine (tree.py).                               *)
(*                                                                         *)
(* Strings that the code inspects character by character (paths, glob      *)
(* patterns, gitignore lines) are sequences of one-character strings.      *)
(* Strings that the code only builds (rendered lines) are TLA+ strings.    *)
(***************************************************************************)
EXTENDS Integers, Sequences, FiniteSets, TLC

VARIABLES
    \* ---- a single call of one of the three matching predicates
    m_path,             \* rel_path argument
    m_pattern,          \* pattern argument
    m_fn,               \* which predicate was called ("none" before the call)
    m_result,           \* its return value
    \* ---- one call of collect_files
    fs,                 \* regular files under the root: set of relative paths
    gi,                 \* the root's .gitignore: [state, lines]
    arg_include,        \* include argument as passed by the caller
    arg_exclude,        \* exclude argument as passed by the caller
    use_gitignore,      \* use_gitignore argument
    pc,                 \* position inside collect_files
    gitignore_patterns, \* local gitignore_patterns
    include,            \* local include (after _expand)
    exclude,            \* local exclude (after _expand and the .git rule)
    todo,               \* entries root.rglob("*") has not yielded yet
    files,              \* local files: the FileInfo records appended so far
    raised,             \* exception that left collect_files ("none" if none)
    faulted,            \* history: paths whose handling raised an OS-level error
    rejected,           \* history: paths skipped by the binary/size/access checks
    \* ---- one call of generate_tree_view
    t_files,            \* files argument: sequence of FileInfo
    max_depth,          \* max_depth argument (NoDepth for None)
    sort_by,            \* sort_by argument
    dirs_first,         \* dirs_first argument
    show_tokens,        \* show_tokens argument
    show_size,          \* show_size argument
    t_pc,               \* position inside build_tree / generate_tree_view
    t_idx,              \* number of records already added to the tree
    root_node,          \* the tree under construction
    full_tree,          \* history: the tree as it was before trim_depth
    lines               \* output lines of generate_tree_view

mvars == <<m_path, m_pattern, m_fn, m_result>>
cvars == <<fs, gi, arg_include, arg_exclude, use_gitignore, pc, gitignore_patterns,
           include, exclude, todo, files, raised, faulted, rejected>>
tvars == <<t_files, max_depth, sort_by, dirs_first, show_tokens, show_size, t_pc,
           t_idx, root_node, full_tree, lines>>
vars == <<mvars, cvars, tvars>>

(***************************************************************************)
(* Python string primitives                                                *)
(***************************************************************************)

\* s[n:]
Drop(s, n) == SubSeq(s, n + 1, Len(s))

\* s[:n]
Take(s, n) == SubSeq(s, 1, n)

\* s.startswith(p)
StartsWith(s, p) == Len(p) <= Len(s) /\ Take(s, Len(p)) = p

\* s.endswith(p)
EndsWith(s, p) == Len(p) <= Len(s) /\ Drop(s, Len(s) - Len(p)) = p

\* c in s, for a single character c
HasChar(s, c) == \E i \in 1..Len(s) : s[i] = c

\* sub in s, for a substring
Contains(s, sub) == \E i \in 0..(Len(s) - Len(sub)) : SubSeq(s, i + 1, i + Len(sub)) = sub

\* s.replace(old, ""): left to right, non-overlapping
RECURSIVE RemoveAll(_, _)
RemoveAll(s, old) ==
    IF s = <<>> THEN <<>>
    ELSE IF StartsWith(s, old) THEN RemoveAll(Drop(s, Len(old)), old)
    ELSE <<Head(s)>> \o RemoveAll(Tail(s), old)

\* s.replace("\\", "/")
NormSep(s) == [i \in 1..Len(s) |-> IF s[i] = "\\" THEN "/" ELSE s[i]]

\* s.lstrip(chars)
RECURSIVE LStrip(_, _)
LStrip(s, chars) ==
    IF s # <<>> /\ Head(s) \in chars THEN LStrip(Tail(s), chars) ELSE s

\* s.rstrip(chars)
RECURSIVE RStrip(_, _)
RStrip(s, chars) ==
    IF s # <<>> /\ s[Len(s)] \in chars THEN RStrip(Take(s, Len(s) - 1), chars) ELSE s

Whitespace == {" ", "\t", "\n", "\r"}

\* s.strip()
Strip(s) == RStrip(LStrip(s, Whitespace), Whitespace)

\* s.split("/"): empty pieces are kept
RECURSIVE Split(_)
Split(s) ==
    IF ~HasChar(s, "/") THEN <<s>>
    ELSE LET i == CHOOSE k \in 1..Len(s) : s[k] = "/" /\ \A j \in 1..(k - 1) : s[j] # "/"
         IN <<Take(s, i - 1)>> \o Split(Drop(s, i))

\* "/".join(parts)
RECURSIVE Join(_)
Join(parts) ==
    IF parts = <<>> THEN <<>>
    ELSE IF Len(parts) = 1 THEN parts[1]
    ELSE parts[1] \o <<"/">> \o Join(Tail(parts))

\* os.path.basename(p): what follows the last "/"
basename(p) == LET parts == Split(p) IN parts[Len(parts)]

(***************************************************************************)
(* fnmatch.fnmatch on POSIX: normcase is the identity, "*" matches any run *)
(* of characters ("/" included), "?" one character, anything else itself.  *)
(* Bracket classes are outside the alphabet of the model.                  *)
(***************************************************************************)
RECURSIVE fnmatch(_, _)
fnmatch(name, pat) ==
    IF pat = <<>> THEN name = <<>>
    ELSE IF Head(pat) = "*"
         THEN \E k \in 0..Len(name) : fnmatch(Drop(name, k), Tail(pat))
    ELSE IF Head(pat) = "?"
         THEN name # <<>> /\ fnmatch(Tail(name), Tail(pat))
    ELSE name # <<>> /\ Head(name) = Head(pat) /\ fnmatch(Tail(name), Tail(pat))

(***************************************************************************)
(* The regular expression _matches_exclude_pattern builds: re.escape, then *)
(* "\*\*" -> ".*", "\*" -> "[^/]*", "\?" -> ".".  A compiled expression is *)
(* a sequence of tokens: ".*", "[^/]*", "." or a literal character.        *)
(***************************************************************************)
RECURSIVE GlobToRegex(_)
GlobToRegex(pattern) ==
    IF pattern = <<>> THEN <<>>
    ELSE IF StartsWith(pattern, <<"*", "*">>)
         THEN <<".*">> \o GlobToRegex(Drop(pattern, 2))
    ELSE IF Head(pattern) = "*" THEN <<"[^/]*">> \o GlobToRegex(Tail(pattern))
    ELSE IF Head(pattern) = "?" THEN <<".">> \o GlobToRegex(Tail(pattern))
    ELSE IF Head(pattern) = "." THEN <<"\\.">> \o GlobToRegex(Tail(pattern))
    ELSE <<Head(pattern)>> \o GlobToRegex(Tail(pattern))

\* re.match("^" + regex + "$", s)
RECURSIVE ReMatch(_, _)
ReMatch(regex, s) ==
    IF regex = <<>> THEN s = <<>>
    ELSE IF Head(regex) = ".*"
         THEN \E k \in 0..Len(s) : ReMatch(Tail(regex), Drop(s, k))
    ELSE IF Head(regex) = "[^/]*"
         THEN \E k \in 0..Len(s) :
                 /\ \A j \in 1..k : s[j] # "/"
                 /\ ReMatch(Tail(regex), Drop(s, k))
    ELSE IF Head(regex) = "."
         THEN s # <<>> /\ ReMatch(Tail(regex), Tail(s))
    ELSE IF Head(regex) = "\\."
         THEN s # <<>> /\ Head(s) = "." /\ ReMatch(Tail(regex), Tail(s))
    ELSE s # <<>> /\ Head(s) = Head(regex) /\ ReMatch(Tail(regex), Tail(s))

(***************************************************************************)
(* walker.py: gitignore rules                                              *)
(***************************************************************************)

\* One line of .gitignore as the loader keeps or drops it.
KeepsLine(line) ==
    LET l == Strip(line)
    IN l # <<>> /\ Head(l) # "#" /\ Head(l) # "!"

\* The patterns the loop of _load_gitignore_patterns collects from the lines.
RECURSIVE ParseGitignore(_)
ParseGitignore(ls) ==
    IF ls = <<>> THEN <<>>
    ELSE (IF KeepsLine(Head(ls)) THEN <<Strip(Head(ls))>> ELSE <<>>)
         \o ParseGitignore(Tail(ls))

\* Directory rule (trailing "/"): the rule with its slashes stripped is
\* tried as the path, as a prefix, and below any leading components.
MatchDirPatternNoDepth(rel_path, pattern) ==
    LET p == RStrip(pattern, {"/"})
    IN \/ fnmatch(rel_path, p)
       \/ fnmatch(rel_path, p \o <<"/", "*", "*">>)

MatchDirPattern(rel_path, pattern) ==
    LET p == RStrip(pattern, {"/"})
    IN \/ fnmatch(rel_path, p)
       \/ fnmatch(rel_path, p \o <<"/", "*", "*">>)
       \/ fnmatch(rel_path, <<"*", "/">> \o p)
       \/ fnmatch(rel_path, <<"*", "/">> \o p \o <<"/", "*", "*">>)

\* Simple rule (no slash): basename, any component, any partial path.
MatchSimplePattern(rel_path, pattern) ==
    LET parts == Split(rel_path)
    IN \/ fnmatch(basename(rel_path), pattern)
       \/ \E i \in 1..Len(parts) :
             \/ fnmatch(parts[i], pattern)
             \/ fnmatch(Join(Take(parts, i)), pattern)

_matches_gitignore_pattern(rel_path0, pattern0) ==
    LET rel_path == NormSep(rel_path0)
        pattern == NormSep(pattern0)
    IN IF EndsWith(pattern, <<"/">>) THEN MatchDirPattern(rel_path, pattern)
       ELSE IF StartsWith(pattern, <<"/">>) THEN fnmatch(rel_path, Tail(pattern))
       ELSE IF HasChar(pattern, "/")
            THEN \/ fnmatch(rel_path, pattern)
                 \/ fnmatch(rel_path, <<"*", "*", "/">> \o pattern)
       ELSE MatchSimplePattern(rel_path, pattern)

_should_exclude_by_gitignore(rel_path, patterns) ==
    \E i \in 1..Len(patterns) : _matches_gitignore_pattern(rel_path, patterns[i])

(***************************************************************************)
(* walker.py: exclude patterns                                             *)
(***************************************************************************)

\* The "**"-free base of a pattern.
ExcludeBaseOneSided(pattern) == RemoveAll(pattern, <<"/", "*", "*">>)

ExcludeBase(pattern) ==
    RemoveAll(RemoveAll(pattern, <<"/", "*", "*">>), <<"*", "*", "/">>)

\* Some path component matches the glob.
AnyPartMatches(rel_path, glob) ==
    LET parts == Split(rel_path)
    IN \E i \in 1..Len(parts) : fnmatch(parts[i], glob)

_matches_exclude_pattern(rel_path0, pattern0) ==
    LET rel_path == NormSep(rel_path0)
        pattern == NormSep(pattern0)
    IN IF Contains(pattern, <<"*", "*">>)
       THEN IF ~HasChar(ExcludeBase(pattern), "/")
            THEN AnyPartMatches(rel_path, ExcludeBase(pattern))
            ELSE ReMatch(GlobToRegex(pattern), rel_path)
       ELSE IF HasChar(pattern, "*") \/ HasChar(pattern, "?") \/ HasChar(pattern, "/")
            THEN fnmatch(rel_path, pattern)
       ELSE AnyPartMatches(rel_path, pattern)

(***************************************************************************)
(* Names and paths used as inputs                                          *)
(***************************************************************************)
sBuild       == <<"b", "u", "i", "l", "d">>
sBuildscript == <<"b", "u", "i", "l", "d", "s", "c", "r", "i", "p", "t", ".", "s", "h">>
sSub         == <<"s", "u", "b">>
sXTxt        == <<"x", ".", "t", "x", "t">>
sALog        == <<"a", ".", "l", "o", "g">>
sALogTxt     == <<"a", ".", "l", "o", "g", ".", "t", "x", "t">>
sDotGit      == <<".", "g", "i", "t">>
sConfig      == <<"c", "o", "n", "f", "i", "g">>
sDotEnv      == <<".", "e", "n", "v">>
sStarLog     == <<"*", ".", "l", "o", "g">>
Slash        == <<"/">>
StarStar     == <<"*", "*">>

\* Largest number of components of a path handed to a matching predicate.
MaxSegs == 3

MatchSegs == {sBuild, sBuildscript, sSub, sXTxt, sALog, sALogTxt}

RECURSIVE PathsOfDepth(_)
PathsOfDepth(n) ==
    IF n = 1 THEN MatchSegs
    ELSE {p \o Slash \o s : p \in PathsOfDepth(n - 1), s \in MatchSegs}

MatchPaths == UNION {PathsOfDepth(n) : n \in 1..MaxSegs}

MatchPatterns ==
    { sBuild \o Slash,                         \* build/
      sSub \o Slash,                           \* sub/
      Slash \o sBuild \o Slash,                \* /build/
      Slash \o sALog,                          \* /a.log
      sSub \o Slash \o sStarLog,               \* sub/*.log
      sStarLog,                                \* *.log
      sBuild,                                  \* build
      StarStar \o Slash \o sStarLog,           \* **/*.log
      StarStar \o Slash \o sXTxt,              \* **/x.txt
      StarStar \o Slash \o <<"a", ".", "l", "o", "?">>,      \* **/a.lo?
      sSub \o Slash \o StarStar \o Slash \o sXTxt,           \* sub/**/x.txt
      sBuild \o Slash \o StarStar }            \* build/**

(***************************************************************************)
(* Idle values of the variables a specification does not use               *)
(***************************************************************************)
NoDepth == -1

IdleMatch ==
    /\ m_path = <<>>
    /\ m_pattern = <<>>
    /\ m_fn = "none"
    /\ m_result = FALSE

IdleCollect ==
    /\ fs = {}
    /\ gi = [state |-> "missing", lines |-> <<>>]
    /\ arg_include = <<>>
    /\ arg_exclude = <<>>
    /\ use_gitignore = FALSE
    /\ pc = "idle"
    /\ gitignore_patterns = <<>>
    /\ include = <<>>
    /\ exclude = <<>>
    /\ todo = {}
    /\ files = <<>>
    /\ raised = "none"
    /\ faulted = {}
    /\ rejected = {}

IdleTree ==
    /\ t_files = <<>>
    /\ max_depth = NoDepth
    /\ sort_by = "name"
    /\ dirs_first = TRUE
    /\ show_tokens = TRUE
    /\ show_size = FALSE
    /\ t_pc = "idle"
    /\ t_idx = 0
    /\ root_node = <<>>
    /\ full_tree = <<>>
    /\ lines = <<>>

(***************************************************************************)
(* SpecMatch: one call of a matching predicate on a path and a pattern     *)
(***************************************************************************)
InitMatch ==
    /\ m_path \in MatchPaths
    /\ m_pattern \in MatchPatterns
    /\ m_fn = "none"
    /\ m_result = FALSE
    /\ IdleCollect
    /\ IdleTree

CallGitignore ==
    /\ m_fn = "none"
    /\ m_fn' = "gitignore"
    /\ m_result' = _matches_gitignore_pattern(m_path, m_pattern)
    /\ UNCHANGED <<m_path, m_pattern, cvars, tvars>>

CallExclude ==
    /\ m_fn = "none"
    /\ m_fn' = "exclude"
    /\ m_result' = _matches_exclude_pattern(m_path, m_pattern)
    /\ UNCHANGED <<m_path, m_pattern, cvars, tvars>>

CallFnmatch ==
    /\ m_fn = "none"
    /\ m_fn' = "fnmatch"
    /\ m_result' = fnmatch(m_path, m_pattern)
    /\ UNCHANGED <<m_path, m_pattern, cvars, tvars>>

NextMatch == CallGitignore \/ CallExclude \/ CallFnmatch

SpecMatch == InitMatch /\ [][NextMatch]_vars

(***************************************************************************)
(* C3 and C4: directory rules and "**/" exclude patterns                   *)
(***************************************************************************)
IsPlainName(s) ==
    s # <<>> /\ \A i \in 1..Len(s) : s[i] \notin {"*", "?", "/", "[", "\\"}

\* The path lies inside a directory named d, at the root or at any depth.
InsideDirNamed(path, d) ==
    LET parts == Split(path)
    IN \E i \in 1..(Len(parts) - 1) : parts[i] = d

\* d is a proper prefix of some component and is no component itself.
OnlyProperPrefix(path, d) ==
    LET parts == Split(path)
    IN /\ \A i \in 1..Len(parts) : parts[i] # d
       /\ \E i \in 1..Len(parts) : StartsWith(parts[i], d) /\ parts[i] # d

\* The gitignore rule is "D/" for a plain name D.
IsDirRule(pattern) ==
    /\ EndsWith(pattern, Slash)
    /\ IsPlainName(Take(pattern, Len(pattern) - 1))

\* C3: a gitignore rule "D/" matches every path inside a directory named D,
\* at the root or at any depth, and matches no path in which D is only a
\* proper prefix of a component name.
C3_DirRule ==
    (m_fn = "gitignore" /\ IsDirRule(m_pattern)) =>
        LET d == Take(m_pattern, Len(m_pattern) - 1)
        IN /\ InsideDirNamed(m_path, d) => m_result
           /\ OnlyProperPrefix(m_path, d) => ~m_result

\* build/ has matched sub/build/x.txt
C3_Witness ==
    /\ m_fn = "gitignore"
    /\ m_pattern = sBuild \o Slash
    /\ m_path = sSub \o Slash \o sBuild \o Slash \o sXTxt
    /\ m_result

\* The exclude pattern is "**/<glob>" for a glob of one component.
IsStarStarRule(pattern) ==
    /\ StartsWith(pattern, StarStar \o Slash)
    /\ Len(pattern) > 3
    /\ ~HasChar(Drop(pattern, 3), "/")
    /\ ~Contains(Drop(pattern, 3), StarStar)

\* C4: an exclude pattern "**/<glob>" excludes every path whose file name
\* matches <glob>, at the root or at any depth, and excludes no path none of
\* whose components matches <glob> in full.
C4_StarStarRule ==
    (m_fn = "exclude" /\ IsStarStarRule(m_pattern)) =>
        LET glob == Drop(m_pattern, 3)
            parts == Split(m_path)
        IN /\ fnmatch(parts[Len(parts)], glob) => m_result
           /\ (\A i \in 1..Len(parts) : ~fnmatch(parts[i], glob)) => ~m_result

\* **/*.log has excluded a/../a.log two directories down
C4_Witness ==
    /\ m_fn = "exclude"
    /\ m_pattern = StarStar \o Slash \o sStarLog
    /\ Len(Split(m_path)) = 3
    /\ basename(m_path) = sALog
    /\ m_result

(***************************************************************************)
(* walker.py: collect_files                                                *)
(*                                                                         *)
(* fs holds the regular files below the root; a directory exists when it   *)
(* is a proper ancestor of one of them.  Entries of root.rglob("*") that   *)
(* are not regular files leave the loop at its first test and are not      *)
(* enumerated.  A .gitignore that exists is one more regular file of the   *)
(* walk.  A FileInfo is modelled by its path; size and mtime are copies of *)
(* the stat fields.                                                        *)
(***************************************************************************)

\* The regular files root.rglob("*") yields.
RegularFiles(tree, g) ==
    tree \cup (IF g.state = "missing" THEN {}
               ELSE {<<".", "g", "i", "t", "i", "g", "n", "o", "r", "e">>})

\* (root / pat).is_dir()
IsDir(pat, tree) ==
    \/ pat = <<>>
    \/ \E f \in tree : StartsWith(f, pat \o <<"/">>)

\* _expand as written: lstrip("./") removes every leading "." and "/".
_expand(pattern, tree) ==
    LET pat == RStrip(LStrip(NormSep(pattern), {".", "/"}), {"/"})
    IN IF pat \in {<<"*">>, <<"*", "*">>} THEN pat
       ELSE IF IsDir(pat, tree) THEN pat \o <<"/", "*", "*">>
       ELSE pat

\* [_expand(p) for p in patterns]
ExpandAll(patterns, tree) == [i \in 1..Len(patterns) |-> _expand(patterns[i], tree)]

\* git_included
git_included(inc) ==
    \E i \in 1..Len(inc) : StartsWith(LStrip(inc[i], {".", "/"}), <<".", "g", "i", "t">>)

\* exclude after the rule that hides .git
WithGitRule(inc, exc) ==
    IF git_included(inc) THEN exc
    ELSE exc \o << <<".", "g", "i", "t", "/", "*", "*">>, <<".", "g", "i", "t">> >>

\* The exception classes "except OSError" catches.
CatchesOSErrorOnlyPermission(exc) == exc = "PermissionError"

CatchesOSError(exc) ==
    exc \in {"OSError", "PermissionError", "FileNotFoundError", "IsADirectoryError"}

\* What reading .gitignore raises inside the try block of the loader.
GitignoreRaises(g) ==
    CASE g.state = "unreadable"  -> "PermissionError"
      [] g.state = "undecodable" -> "UnicodeDecodeError"
      [] OTHER                   -> "none"

\* The three pattern tests of the loop, in the order of the code.
PassesFiltersNoGitignore(rel_path, inc, exc, use_gi, gi_pats) ==
    /\ \E i \in 1..Len(inc) : fnmatch(rel_path, inc[i])
    /\ ~\E i \in 1..Len(exc) : _matches_exclude_pattern(rel_path, exc[i])

PassesFilters(rel_path, inc, exc, use_gi, gi_pats) ==
    /\ \E i \in 1..Len(inc) : fnmatch(rel_path, inc[i])
    /\ ~\E i \in 1..Len(exc) : _matches_exclude_pattern(rel_path, exc[i])
    /\ ~(use_gi /\ _should_exclude_by_gitignore(rel_path, gi_pats))

\* What can happen to one file while the loop handles it.
Events ==
    { "ok",                       \* readable text file within max_size
      "not_file",                 \* is_file() met an OS error and answered False
      "binary",                   \* is_binary_path found binary content
      "sniff_OSError",            \* open() failed inside is_binary_path
      "stat_PermissionError",     \* file.stat() raised
      "stat_FileNotFoundError",   \* file.stat() raised: the file went away
      "no_access",                \* os.access(file, R_OK) is False
      "too_big" }                 \* st_size > max_size

\* The exception file.stat() raises under an event.
StatRaises(ev) ==
    CASE ev = "stat_PermissionError"   -> "PermissionError"
      [] ev = "stat_FileNotFoundError" -> "FileNotFoundError"
      [] OTHER                         -> "none"

\* is_binary_path: an OSError while sniffing counts as binary.
is_binary_path(ev) == ev \in {"binary", "sniff_OSError"}

OSFaults == {"not_file", "sniff_OSError", "stat_PermissionError", "stat_FileNotFoundError"}

\* ---- inputs
pALog     == sALog
pBuildX   == sBuild \o Slash \o sXTxt
pGitCfg   == sDotGit \o Slash \o sConfig
pSubGitX  == sSub \o Slash \o sDotGit \o Slash \o sXTxt
pDotEnv   == sDotEnv
pEnv      == Drop(sDotEnv, 1)

CollectPaths == {pALog, pBuildX, pGitCfg, pSubGitX, pDotEnv, pEnv}

\* Largest number of regular files under the root.
MaxFiles == 2

IncludeArgs ==
    { <<>>,                                             \* None
      << sDotGit \o Slash \o StarStar >>,               \* .git/**
      << sBuild >>,                                     \* build
      << sStarLog, <<".", "/">> \o sSub \o Slash >>,    \* *.log  ./sub/
      << sDotGit, <<"*">> \o sXTxt >>,                 \* .git   *x.txt
      << sDotEnv >> }                                   \* .env

ExcludeArgs ==
    { <<>>,                                             \* None
      << StarStar \o Slash \o sStarLog >>,              \* **/*.log
      << sBuild >>,                                     \* build
      << sSub \o Slash \o sDotGit \o Slash \o StarStar >> }   \* sub/.git/**

GitignoreFiles ==
    { [state |-> "missing",     lines |-> <<>>],
      [state |-> "unreadable",  lines |-> << sStarLog >>],
      [state |-> "undecodable", lines |-> << sStarLog >>],
      [state |-> "ok",          lines |-> << sBuild \o Slash >>],
      [state |-> "ok",          lines |-> << <<"#", " ", "c">>,
                                             <<"!">> \o sALog,
                                             <<>>,
                                             <<" ">> \o sStarLog \o <<" ">> >>] }

InitCollect ==
    /\ fs \in {t \in SUBSET CollectPaths : Cardinality(t) <= MaxFiles}
    /\ gi \in GitignoreFiles
    /\ arg_include \in IncludeArgs
    /\ arg_exclude \in ExcludeArgs
    /\ use_gitignore \in BOOLEAN
    /\ pc = "start"
    /\ gitignore_patterns = <<>>
    /\ include = <<>>
    /\ exclude = <<>>
    /\ todo = {}
    /\ files = <<>>
    /\ raised = "none"
    /\ faulted = {}
    /\ rejected = {}
    /\ IdleMatch
    /\ IdleTree

\* Lines 192-200: default patterns, then _load_gitignore_patterns.
LoadGitignore ==
    /\ pc = "start"
    /\ include' = IF arg_include = <<>> THEN << <<"*">> >> ELSE arg_include
    /\ exclude' = arg_exclude
    /\ IF ~use_gitignore \/ gi.state = "missing"
       THEN gitignore_patterns' = <<>> /\ raised' = "none" /\ pc' = "expand"
       ELSE IF GitignoreRaises(gi) = "none"
       THEN /\ gitignore_patterns' = ParseGitignore(gi.lines)
            /\ raised' = "none"
            /\ pc' = "expand"
       ELSE IF CatchesOSError(GitignoreRaises(gi))
       THEN gitignore_patterns' = <<>> /\ raised' = "none" /\ pc' = "expand"
       ELSE /\ gitignore_patterns' = <<>>
            /\ raised' = GitignoreRaises(gi)
            /\ pc' = "raised"
    /\ UNCHANGED <<fs, gi, arg_include, arg_exclude, use_gitignore, todo, files,
                   faulted, rejected, mvars, tvars>>

\* Lines 202-218: _expand over both lists, then the .git rule.
ExpandPatterns ==
    /\ pc = "expand"
    /\ include' = ExpandAll(include, fs)
    /\ exclude' = WithGitRule(ExpandAll(include, fs), ExpandAll(exclude, fs))
    /\ todo' = RegularFiles(fs, gi)
    /\ pc' = "walk"
    /\ UNCHANGED <<fs, gi, arg_include, arg_exclude, use_gitignore, gitignore_patterns,
                   files, raised, faulted, rejected, mvars, tvars>>

\* Lines 220-248: one iteration of the loop, on a file rglob yields next.
VisitFile ==
    /\ pc = "walk"
    /\ \E file \in todo, ev \in Events :
          /\ todo' = todo \ {file}
          /\ IF ev = "not_file"
             THEN /\ faulted' = faulted \cup {file}
                  /\ UNCHANGED <<files, rejected, raised, pc>>
             ELSE IF ~PassesFilters(NormSep(file), include, exclude, use_gitignore,
                                    gitignore_patterns)
             THEN UNCHANGED <<files, faulted, rejected, raised, pc>>
             ELSE IF is_binary_path(ev)
             THEN /\ faulted' = IF ev \in OSFaults THEN faulted \cup {file} ELSE faulted
                  /\ rejected' = IF ev \in OSFaults THEN rejected ELSE rejected \cup {file}
                  /\ UNCHANGED <<files, raised, pc>>
             ELSE IF StatRaises(ev) # "none"
             THEN /\ faulted' = faulted \cup {file}
                  /\ IF CatchesOSError(StatRaises(ev))
                     THEN UNCHANGED <<raised, pc>>
                     ELSE raised' = StatRaises(ev) /\ pc' = "raised"
                  /\ UNCHANGED <<files, rejected>>
             ELSE IF ev \in {"no_access", "too_big"}
             THEN /\ rejected' = rejected \cup {file}
                  /\ UNCHANGED <<files, faulted, raised, pc>>
             ELSE /\ files' = Append(files, [path |-> file])
                  /\ UNCHANGED <<faulted, rejected, raised, pc>>
    /\ UNCHANGED <<fs, gi, arg_include, arg_exclude, use_gitignore, gitignore_patterns,
                   include, exclude, mvars, tvars>>

\* Line 249: the iterator is exhausted.
ReturnFiles ==
    /\ pc = "walk"
    /\ todo = {}
    /\ pc' = "done"
    /\ UNCHANGED <<fs, gi, arg_include, arg_exclude, use_gitignore, gitignore_patterns,
                   include, exclude, todo, files, raised, faulted, rejected, mvars, tvars>>

NextCollect == LoadGitignore \/ ExpandPatterns \/ VisitFile \/ ReturnFiles

SpecCollect == InitCollect /\ [][NextCollect]_vars

(***************************************************************************)
(* C1, C2, C8, C10: what collect_files returns                             *)
(***************************************************************************)

\* Paths of the records returned.
Returned == {files[i].path : i \in 1..Len(files)}

\* The rules a readable, decodable .gitignore holds.
LoadedRules == IF gi.state = "ok" THEN ParseGitignore(gi.lines) ELSE <<>>

IncludeMatches(P) == \E i \in 1..Len(include) : fnmatch(P, include[i])
ExcludeMatches(P) == \E i \in 1..Len(exclude) : _matches_exclude_pattern(P, exclude[i])
GitignoreMatches(P) ==
    \E i \in 1..Len(LoadedRules) : _matches_gitignore_pattern(P, LoadedRules[i])

\* C1: of the regular files that pass the binary, size and readability
\* checks, collect_files returns exactly those that some include pattern
\* matches, no exclude pattern matches and, with use_gitignore set, no loaded
\* gitignore rule matches; with use_gitignore unset the rules of .gitignore
\* play no part.  The patterns are the ones in effect during the walk.
C1_Admission ==
    pc = "done" =>
        \A P \in RegularFiles(fs, gi) \ (faulted \cup rejected) :
            P \in Returned <=>
                /\ IncludeMatches(P)
                /\ ~ExcludeMatches(P)
                /\ use_gitignore => ~GitignoreMatches(P)

\* A file passed the include and exclude patterns and was kept back by a
\* gitignore rule alone, while another file was returned.
C1_Witness ==
    /\ pc = "done"
    /\ use_gitignore
    /\ Returned # {}
    /\ \E P \in fs \ (faulted \cup rejected) :
          IncludeMatches(P) /\ ~ExcludeMatches(P) /\ GitignoreMatches(P)

\* An include pattern names .git explicitly: ".git" or a path below it,
\* with or without a leading "./".
TargetsGit(pattern) ==
    LET p == NormSep(pattern)
        q == IF StartsWith(p, <<".", "/">>) THEN Drop(p, 2) ELSE p
    IN Split(q)[1] = sDotGit

\* The two patterns that hide .git were appended to exclude.
ForcedGitRule ==
    /\ Len(exclude) = Len(arg_exclude) + 2
    /\ exclude[Len(exclude) - 1] = sDotGit \o Slash \o StarStar
    /\ exclude[Len(exclude)] = sDotGit

\* C2: .git and everything below it is force-excluded exactly when no
\* include pattern names .git explicitly; without such a pattern no returned
\* path has a component .git.
C2_GitRuleIffNotTargeted ==
    pc \in {"walk", "done"} =>
        LET targeted == \E i \in 1..Len(arg_include) : TargetsGit(arg_include[i])
        IN /\ ForcedGitRule <=> ~targeted
           /\ ~targeted =>
                 \A P \in Returned : \A i \in 1..Len(Split(P)) : Split(P)[i] # sDotGit

\* C8: with use_gitignore set and .gitignore missing, unreadable or not
\* decodable, the rule set is empty, collect_files does not fail, and the
\* result is the one obtained without gitignore rules.
C8_GitignoreFailSoft ==
    (use_gitignore /\ gi.state \in {"missing", "unreadable", "undecodable"}) =>
        /\ raised = "none"
        /\ pc # "start" => gitignore_patterns = <<>>
        /\ pc = "done" =>
              \A P \in RegularFiles(fs, gi) \ (faulted \cup rejected) :
                  P \in Returned <=> (IncludeMatches(P) /\ ~ExcludeMatches(P))

\* C10: an OS-level error while one file is handled skips that file and
\* nothing else: collect_files does not raise, the loop visits every entry,
\* and every other file is returned or rejected as without the error.
C10_FaultSkipsOneFile ==
    /\ faulted # {} => raised = "none"
    /\ pc = "done" =>
          /\ todo = {}
          /\ \A P \in faulted : P \notin Returned
          /\ \A P \in RegularFiles(fs, gi) \ faulted :
                P \in Returned <=>
                    /\ P \notin rejected
                    /\ PassesFilters(NormSep(P), include, exclude, use_gitignore,
                                     gitignore_patterns)

\* One file met an OS-level error, another one was returned after it.
C10_Witness ==
    /\ pc = "done"
    /\ faulted # {}
    /\ \E P \in fs \ faulted : P \in Returned

(***************************************************************************)
(* tree.py: TreeNode, build_tree                                           *)
(*                                                                         *)
(* A FileInfo is [path, size]; Path.parts is Split(path).  A TreeNode is a *)
(* record with the fields of the dataclass; children is a sequence of      *)
(* TreeNodes.                                                              *)
(***************************************************************************)
TreeNode(name, path, is_dir, size, tokens) ==
    [name |-> name, path |-> path, is_dir |-> is_dir, size |-> size,
     tokens |-> tokens, children |-> <<>>]

RootName == <<"r", "o", "o", "t">>

\* The leaf add_to_tree makes for the last component of a record's path.
LeafNodeTokensRoundedUp(name, file_info) ==
    TreeNode(name, <<name>>, FALSE, file_info.size, (file_info.size + 3) \div 4)

LeafNode(name, file_info) ==
    TreeNode(name, <<name>>, FALSE, file_info.size, file_info.size \div 4)

\* Index of the first child that is a directory of that name, 0 if none.
FindDir(node, dir_name) ==
    LET hits == {i \in 1..Len(node.children) :
                    node.children[i].name = dir_name /\ node.children[i].is_dir}
    IN IF hits = {} THEN 0 ELSE CHOOSE i \in hits : \A j \in hits : i <= j

\* add_to_tree(node, rel_path, file_info), parts being rel_path.parts.
RECURSIVE add_to_tree(_, _, _)
add_to_tree(node, parts, file_info) ==
    IF Len(parts) = 1
    THEN [node EXCEPT !.children = Append(@, LeafNode(parts[1], file_info))]
    ELSE LET i == FindDir(node, parts[1])
         IN IF i = 0
            THEN [node EXCEPT !.children =
                     Append(@, add_to_tree(TreeNode(parts[1], <<parts[1]>>, TRUE, 0, 0),
                                           Tail(parts), file_info))]
            ELSE [node EXCEPT !.children[i] = add_to_tree(@, Tail(parts), file_info)]

RECURSIVE SumSize(_)
SumSize(nodes) == IF nodes = <<>> THEN 0 ELSE Head(nodes).size + SumSize(Tail(nodes))

RECURSIVE SumTokens(_)
SumTokens(nodes) == IF nodes = <<>> THEN 0 ELSE Head(nodes).tokens + SumTokens(Tail(nodes))

\* calc_size: the node with size and tokens of every directory rolled up.
RECURSIVE calc_size(_)
calc_size(node) ==
    IF ~node.is_dir THEN node
    ELSE LET kids == [i \in 1..Len(node.children) |-> calc_size(node.children[i])]
         IN [node EXCEPT !.children = kids,
                         !.size = SumSize(kids),
                         !.tokens = SumTokens(kids)]

\* Characters in the order of their code points, and str.lower().
CodeOrder ==
    <<"-", ".", "0", "1", "2", "3", "4", "5", "6", "7", "8", "9",
      "A", "B", "C", "D", "E", "F", "G", "H", "I", "J", "K", "L", "M",
      "N", "O", "P", "Q", "R", "S", "T", "U", "V", "W", "X", "Y", "Z", "_",
      "a", "b", "c", "d", "e", "f", "g", "h", "i", "j", "k", "l", "m",
      "n", "o", "p", "q", "r", "s", "t", "u", "v", "w", "x", "y", "z">>

Ord(c) == CHOOSE i \in 1..Len(CodeOrder) : CodeOrder[i] = c

LowerChar(c) ==
    IF Ord(c) \in Ord("A")..Ord("Z") THEN CodeOrder[Ord(c) - Ord("A") + Ord("a")] ELSE c

Lower(s) == [i \in 1..Len(s) |-> LowerChar(s[i])]

\* s < t for Python strings
RECURSIVE StrLess(_, _)
StrLess(s, t) ==
    IF t = <<>> THEN FALSE
    ELSE IF s = <<>> THEN TRUE
    ELSE IF Head(s) = Head(t) THEN StrLess(Tail(s), Tail(t))
    ELSE Ord(Head(s)) < Ord(Head(t))

sort_key_case_sensitive(node, by) ==
    IF by = "size" THEN -node.size
    ELSE IF by = "tokens" THEN -node.tokens
    ELSE node.name

sort_key_ascending(node, by) ==
    IF by = "size" THEN node.size
    ELSE IF by = "tokens" THEN node.tokens
    ELSE Lower(node.name)

sort_key(node, by) ==
    IF by = "size" THEN -node.size
    ELSE IF by = "tokens" THEN -node.tokens
    ELSE Lower(node.name)

\* k1 < k2 for two keys of the same criterion
KeyLess(k1, k2, by) ==
    IF by \in {"size", "tokens"} THEN k1 < k2 ELSE StrLess(k1, k2)

\* list.sort(key=sort_key): stable, ascending
RECURSIVE SortedByKey(_, _)
SortedByKey(nodes, by) ==
    IF nodes = <<>> THEN <<>>
    ELSE LET rest == SortedByKey(Take(nodes, Len(nodes) - 1), by)
             x == nodes[Len(nodes)]
             before == {i \in 1..Len(rest) :
                           ~KeyLess(sort_key(x, by), sort_key(rest[i], by), by)}
             n == IF before = {} THEN 0 ELSE CHOOSE i \in before : \A j \in before : j <= i
         IN Take(rest, n) \o <<x>> \o Drop(rest, n)

\* [c for c in nodes if c.is_dir == flag]
RECURSIVE SelectKind(_, _)
SelectKind(nodes, flag) ==
    IF nodes = <<>> THEN <<>>
    ELSE (IF Head(nodes).is_dir = flag THEN <<Head(nodes)>> ELSE <<>>)
         \o SelectKind(Tail(nodes), flag)

\* sort_children
RECURSIVE sort_children(_, _, _)
sort_children(node, by, dfirst) ==
    LET sorted == IF dfirst
                  THEN SortedByKey(SelectKind(node.children, TRUE), by)
                       \o SortedByKey(SelectKind(node.children, FALSE), by)
                  ELSE SortedByKey(node.children, by)
    IN [node EXCEPT !.children =
           [i \in 1..Len(sorted) |->
               IF sorted[i].is_dir THEN sort_children(sorted[i], by, dfirst)
               ELSE sorted[i]]]

\* trim_depth
RECURSIVE trim_depth_one_deeper(_, _, _)
trim_depth_one_deeper(node, depth, md) ==
    IF depth > md THEN [node EXCEPT !.children = <<>>]
    ELSE [node EXCEPT !.children =
             [i \in 1..Len(node.children) |->
                 IF node.children[i].is_dir
                 THEN trim_depth_one_deeper(node.children[i], depth + 1, md)
                 ELSE node.children[i]]]

RECURSIVE trim_depth_dirs_only(_, _, _)
trim_depth_dirs_only(node, depth, md) ==
    IF depth >= md THEN [node EXCEPT !.children = SelectKind(node.children, FALSE)]
    ELSE [node EXCEPT !.children =
             [i \in 1..Len(node.children) |->
                 IF node.children[i].is_dir
                 THEN trim_depth_dirs_only(node.children[i], depth + 1, md)
                 ELSE node.children[i]]]

RECURSIVE trim_depth(_, _, _)
trim_depth(node, depth, md) ==
    IF depth >= md THEN [node EXCEPT !.children = <<>>]
    ELSE [node EXCEPT !.children =
             [i \in 1..Len(node.children) |->
                 IF node.children[i].is_dir
                 THEN trim_depth(node.children[i], depth + 1, md)
                 ELSE node.children[i]]]

(***************************************************************************)
(* tree.py: render_tree, generate_tree_view                                *)
(*                                                                         *)
(* Output lines are TLA+ strings.  The box-drawing connectors are written  *)
(* in ASCII: "+-- " for the last child, "|-- " for the others, "|   " for  *)
(* the continuation of an open level.                                      *)
(***************************************************************************)

\* A sequence of characters as one string.
RECURSIVE Str(_)
Str(s) == IF s = <<>> THEN "" ELSE Head(s) \o Str(Tail(s))

\* f"{s:>w}"
RECURSIVE PadLeft(_, _)
PadLeft(s, w) == IF Len(s) >= w THEN s ELSE PadLeft(" " \o s, w)

\* f"{n / d:.1f}": one decimal, ties to even.  Exact for the powers of two
\* _format_size divides by; for _format_tokens a tie (n a multiple of d/20
\* and not of d/10) follows the rounding of the float quotient instead.
Fixed1(n, d) ==
    LET q == (10 * n) \div d
        r == (10 * n) % d
        tenths == IF 2 * r > d THEN q + 1
                  ELSE IF 2 * r < d THEN q
                  ELSE IF q % 2 = 0 THEN q ELSE q + 1
    IN ToString(tenths \div 10) \o "." \o ToString(tenths % 10)

_format_size(size) ==
    IF size < 1024 THEN ToString(size)
    ELSE IF size < 1024 * 1024 THEN Fixed1(size, 1024) \o "K"
    ELSE IF size < 1024 * 1024 * 1024 THEN Fixed1(size, 1024 * 1024) \o "M"
    ELSE Fixed1(size, 1024 * 1024 * 1024) \o "G"

_format_tokens(tokens) ==
    IF tokens < 1000 THEN ToString(tokens)
    ELSE IF tokens < 1000 * 1000 THEN Fixed1(tokens, 1000) \o "K"
    ELSE IF tokens < 1000 * 1000 * 1000 THEN Fixed1(tokens, 1000 * 1000) \o "M"
    ELSE Fixed1(tokens, 1000 * 1000 * 1000) \o "B"

\* The line render_tree emits for the node itself.
NodeLine(node, prefix, is_last, stokens, ssize) ==
    prefix
    \o (IF is_last THEN "+-- " ELSE "|-- ")
    \o (IF ssize THEN "[" \o PadLeft(_format_size(node.size), 10) \o "] " ELSE "")
    \o Str(node.name)
    \o (IF stokens /\ ~node.is_dir THEN " (" \o _format_tokens(node.tokens) \o " tok)"
        ELSE "")

RECURSIVE render_tree(_, _, _, _, _)
RECURSIVE RenderChildren(_, _, _, _, _)
render_tree(node, prefix, is_last, stokens, ssize) ==
    <<NodeLine(node, prefix, is_last, stokens, ssize)>>
    \o RenderChildren(node.children, 1,
                      prefix \o (IF is_last THEN "    " ELSE "|   "), stokens, ssize)

\* The loop over root.children, from child i on.
RenderChildren(children, i, new_prefix, stokens, ssize) ==
    IF i > Len(children) THEN <<>>
    ELSE render_tree(children[i], new_prefix, i = Len(children), stokens, ssize)
         \o RenderChildren(children, i + 1, new_prefix, stokens, ssize)

\* count_nodes: <<dirs, files>>
RECURSIVE count_nodes(_)
RECURSIVE CountChildren(_)
count_nodes(node) ==
    IF ~node.is_dir THEN <<0, 1>>
    ELSE LET c == CountChildren(node.children) IN <<1 + c[1], c[2]>>

CountChildren(children) ==
    IF children = <<>> THEN <<0, 0>>
    ELSE LET h == count_nodes(Head(children))
             t == CountChildren(Tail(children))
         IN <<h[1] + t[1], h[2] + t[2]>>

\* The summary line.
SummaryLineCountsRoot(tree) ==
    LET c == count_nodes(tree)
    IN ToString(c[1]) \o " directories, " \o ToString(c[2]) \o " files"

SummaryLine(tree) ==
    LET c == count_nodes(tree)
        num_dirs == IF c[1] - 1 > 0 THEN c[1] - 1 ELSE 0
    IN ToString(num_dirs) \o " directories, " \o ToString(c[2]) \o " files"

\* ---- inputs
tA       == <<"a">>
tABTxt   == <<"a", "/", "b", ".", "t", "x", "t">>
tACD     == <<"a", "/", "c", "/", "d">>
tZ       == <<"Z">>

TreePaths == {tA, tABTxt, tACD, tZ}
TreeSizes == {3, 10}
FileInfos == [path : TreePaths, size : TreeSizes]

\* Largest number of records in the files argument.
MaxRecords == 3

\* Largest max_depth argument.
MaxDepthArg == 2

RECURSIVE SeqsUpTo(_, _)
SeqsUpTo(S, n) ==
    IF n = 0 THEN {<<>>}
    ELSE LET shorter == SeqsUpTo(S, n - 1)
         IN shorter \cup {Append(q, x) : q \in {r \in shorter : Len(r) = n - 1}, x \in S}

InitTree ==
    /\ t_files \in SeqsUpTo(FileInfos, MaxRecords)
    /\ max_depth \in {NoDepth} \cup 0..MaxDepthArg
    /\ sort_by \in {"name", "size", "tokens"}
    /\ dirs_first \in BOOLEAN
    /\ show_tokens = TRUE
    /\ show_size = FALSE
    /\ t_pc = "add"
    /\ t_idx = 0
    /\ root_node = TreeNode(RootName, <<RootName>>, TRUE, 0, 0)
    /\ full_tree = <<>>
    /\ lines = <<>>
    /\ IdleMatch
    /\ IdleCollect

\* Lines 139-140: one iteration of the loop over files.
AddFile ==
    /\ t_pc = "add"
    /\ t_idx < Len(t_files)
    /\ root_node' = add_to_tree(root_node, Split(t_files[t_idx + 1].path),
                                t_files[t_idx + 1])
    /\ t_idx' = t_idx + 1
    /\ UNCHANGED <<t_files, max_depth, sort_by, dirs_first, show_tokens, show_size,
                   t_pc, full_tree, lines, mvars, cvars>>

\* Line 158
CalcSize ==
    /\ t_pc = "add"
    /\ t_idx = Len(t_files)
    /\ root_node' = calc_size(root_node)
    /\ t_pc' = "sort"
    /\ UNCHANGED <<t_files, max_depth, sort_by, dirs_first, show_tokens, show_size,
                   t_idx, full_tree, lines, mvars, cvars>>

\* Line 184
SortChildren ==
    /\ t_pc = "sort"
    /\ root_node' = sort_children(root_node, sort_by, dirs_first)
    /\ full_tree' = sort_children(root_node, sort_by, dirs_first)
    /\ t_pc' = "trim"
    /\ UNCHANGED <<t_files, max_depth, sort_by, dirs_first, show_tokens, show_size,
                   t_idx, lines, mvars, cvars>>

\* Lines 187-199: the tree build_tree returns.
TrimDepth ==
    /\ t_pc = "trim"
    /\ root_node' = IF max_depth # NoDepth THEN trim_depth(root_node, 0, max_depth)
                    ELSE root_node
    /\ t_pc' = "built"
    /\ UNCHANGED <<t_files, max_depth, sort_by, dirs_first, show_tokens, show_size,
                   t_idx, full_tree, lines, mvars, cvars>>

\* Lines 312-339: render, count, summary.
RenderView ==
    /\ t_pc = "built"
    /\ \E stokens \in BOOLEAN, ssize \in BOOLEAN :
          /\ show_tokens' = stokens
          /\ show_size' = ssize
          /\ lines' = render_tree(root_node, "", TRUE, stokens, ssize)
                      \o <<"", SummaryLine(root_node)>>
    /\ t_pc' = "done"
    /\ UNCHANGED <<t_files, max_depth, sort_by, dirs_first, t_idx, root_node,
                   full_tree, mvars, cvars>>

NextTree == AddFile \/ CalcSize \/ SortChildren \/ TrimDepth \/ RenderView

SpecTree == InitTree /\ [][NextTree]_vars

(***************************************************************************)
(* C5, C6, C7, C9: the tree build_tree returns and its rendering           *)
(***************************************************************************)
Returned_tree == t_pc \in {"built", "done"}

\* Indices of the input records whose path lies under the directory dir
\* (the empty path is the root).
RecordsUnder(dir) ==
    {i \in 1..Len(t_files) : dir = <<>> \/ StartsWith(t_files[i].path, dir \o Slash)}

RECURSIVE SumOfSizes(_)
SumOfSizes(I) ==
    IF I = {} THEN 0
    ELSE LET i == CHOOSE j \in I : TRUE IN t_files[i].size + SumOfSizes(I \ {i})

RECURSIVE SumOfQuarters(_)
SumOfQuarters(I) ==
    IF I = {} THEN 0
    ELSE LET i == CHOOSE j \in I : TRUE IN (t_files[i].size \div 4) + SumOfQuarters(I \ {i})

ChildDir(dir, name) == IF dir = <<>> THEN name ELSE dir \o Slash \o name

RECURSIVE AggregatesHold(_, _)
AggregatesHold(node, dir) ==
    node.is_dir =>
        /\ node.size = SumOfSizes(RecordsUnder(dir))
        /\ node.tokens = SumOfQuarters(RecordsUnder(dir))
        /\ \A i \in 1..Len(node.children) :
              AggregatesHold(node.children[i], ChildDir(dir, node.children[i].name))

\* C5: in the tree build_tree returns, every directory node, the root
\* included, has as size the sum of the sizes of the input records below it
\* and as tokens the sum of their floor(size / 4), for every max_depth.
C5_Aggregates == Returned_tree => AggregatesHold(root_node, <<>>)

\* A directory whose children were cleared by max_depth = 1 keeps the size
\* of two records below it.
C5_Witness ==
    /\ Returned_tree
    /\ max_depth = 1
    /\ \E i \in 1..Len(root_node.children) :
          /\ root_node.children[i].is_dir
          /\ root_node.children[i].children = <<>>
          /\ root_node.children[i].size = 13
          /\ root_node.children[i].tokens = 2

\* generate_tree_view([a/b.txt of size 10], max_depth = 1) has returned.
C6_Case ==
    /\ t_files = <<[path |-> tABTxt, size |-> 10]>>
    /\ max_depth = 1
    /\ t_pc = "done"

\* The output is the root, directory a (with size 10 when sizes are shown),
\* a blank line and the summary: no line for b.txt.
C6_Lines(summary) ==
    /\ Len(lines) = 4
    /\ lines[1] = "+-- " \o (IF show_size THEN "[        10] " ELSE "") \o "root"
    /\ lines[2] = "    +-- " \o (IF show_size THEN "[        10] " ELSE "") \o "a"
    /\ lines[3] = ""
    /\ lines[4] = summary

\* C6 as claimed: the view of a/b.txt (size 10) with max_depth = 1 shows a,
\* hides b.txt, shows size 10 for a, and its summary reports 1 directory and
\* 1 file.
C6_SummaryCountsHiddenFile == C6_Case => C6_Lines("1 directories, 1 files")

\* C6 as amended: the same view, with a summary that reports 1 directory and
\* 0 files: the counts are taken over the pruned tree.
C6_SummaryCountsPrunedTree == C6_Case => C6_Lines("1 directories, 0 files")

C6_Witness == C6_Case /\ show_size

Sorted_tree == t_pc \in {"trim", "built", "done"}

RECURSIVE FirstIsLargest(_)
FirstIsLargest(node) ==
    /\ \A i \in 1..Len(node.children) : node.children[1].size >= node.children[i].size
    /\ \A i \in 1..Len(node.children) :
          node.children[i].is_dir => FirstIsLargest(node.children[i])

\* C7 as claimed: with sort_by = "size" the first child of every directory
\* has the largest size of all its children, for both values of dirs_first.
C7_FirstChildLargest == (Sorted_tree /\ sort_by = "size") => FirstIsLargest(root_node)

FirstIsLargestOf(nodes) == \A i \in 1..Len(nodes) : nodes[1].size >= nodes[i].size

RECURSIVE GroupsLargestFirst(_)
GroupsLargestFirst(node) ==
    /\ IF dirs_first
       THEN /\ node.children = SelectKind(node.children, TRUE)
                               \o SelectKind(node.children, FALSE)
            /\ FirstIsLargestOf(SelectKind(node.children, TRUE))
            /\ FirstIsLargestOf(SelectKind(node.children, FALSE))
       ELSE FirstIsLargestOf(node.children)
    /\ \A i \in 1..Len(node.children) :
          node.children[i].is_dir => GroupsLargestFirst(node.children[i])

\* C7 as amended: with sort_by = "size" and dirs_first unset the first child
\* of every directory has the largest size of all its children; with
\* dirs_first set the directories precede the files, the first directory is
\* the largest directory and the first file is the largest file.
C7_LargestFirstPerGroup ==
    (Sorted_tree /\ sort_by = "size") => GroupsLargestFirst(root_node)

\* Sorted by size with directories first: the root lists a directory ahead
\* of a larger file of another name.
C7_Witness ==
    /\ Sorted_tree
    /\ sort_by = "size"
    /\ dirs_first
    /\ Len(root_node.children) = 2
    /\ root_node.children[1].name # root_node.children[2].name
    /\ root_node.children[1].is_dir
    /\ ~root_node.children[2].is_dir
    /\ root_node.children[1].size < root_node.children[2].size

RECURSIVE DistinctSiblings(_)
DistinctSiblings(node) ==
    /\ \A i, j \in 1..Len(node.children) :
          i # j => node.children[i].name # node.children[j].name
    /\ \A i \in 1..Len(node.children) : DistinctSiblings(node.children[i])

\* C9: in the tree build_tree returns, for any list of records, no two
\* children of a directory have the same name.
C9_DistinctSiblings == Returned_tree => DistinctSiblings(root_node)

(***************************************************************************)
(* C11, C12, C13: depth limit, summary, order by name                      *)
(***************************************************************************)

\* The nodes of a tree, each named by the child indices that lead to it from
\* the root; the length of that sequence is the depth of the node.
RECURSIVE Positions(_)
Positions(node) ==
    {<<>>} \cup UNION {{<<i>> \o p : p \in Positions(node.children[i])} :
                         i \in 1..Len(node.children)}

RECURSIVE NodeAt(_, _)
NodeAt(node, pos) ==
    IF pos = <<>> THEN node ELSE NodeAt(node.children[Head(pos)], Tail(pos))

\* A node without its children.
Shallow(node) ==
    [name |-> node.name, is_dir |-> node.is_dir, size |-> node.size,
     tokens |-> node.tokens]

\* C11: with max_depth = d the tree build_tree returns holds exactly the
\* nodes of the unpruned, sorted tree of depth at most d (root at depth 0),
\* each at the place among its siblings it has there; a directory at depth d
\* or more has no children.
C11_DepthLimit ==
    (Returned_tree /\ max_depth # NoDepth) =>
        /\ Positions(root_node) = {p \in Positions(full_tree) : Len(p) <= max_depth}
        /\ \A p \in Positions(root_node) :
              /\ Shallow(NodeAt(root_node, p)) = Shallow(NodeAt(full_tree, p))
              /\ Len(p) >= max_depth => NodeAt(root_node, p).children = <<>>

\* max_depth = 1 has removed a node of depth 2 and kept two nodes of depth 1.
C11_Witness ==
    /\ Returned_tree
    /\ max_depth = 1
    /\ \E p \in Positions(full_tree) : Len(p) = 2
    /\ Len(root_node.children) = 2

\* Number of nodes of the rendered tree, the root apart, that are or are
\* not directories.
CountKind(flag) ==
    Cardinality({p \in Positions(root_node) :
                    p # <<>> /\ NodeAt(root_node, p).is_dir = flag})

\* C12: the output ends with a blank line and "<N> directories, <M> files",
\* N the directory nodes other than the root and M the file nodes of the
\* rendered tree, so that N + M + 1 lines precede the blank line; an empty
\* file list gives "0 directories, 0 files".
C12_Summary ==
    t_pc = "done" =>
        /\ Len(lines) >= 3
        /\ lines[Len(lines) - 1] = ""
        /\ lines[Len(lines)] = ToString(CountKind(TRUE)) \o " directories, "
                               \o ToString(CountKind(FALSE)) \o " files"
        /\ CountKind(TRUE) + CountKind(FALSE) + 1 = Len(lines) - 2
        /\ t_files = <<>> => lines[Len(lines)] = "0 directories, 0 files"

\* A pruned tree with directories and files left has been rendered.
C12_Witness ==
    /\ t_pc = "done"
    /\ max_depth = 2
    /\ root_node # full_tree
    /\ CountKind(TRUE) >= 2
    /\ CountKind(FALSE) >= 1

\* lower(names[i]) <= lower(names[i + 1]) along a list of nodes
NonDecreasingByLowerName(nodes) ==
    \A i \in 1..(Len(nodes) - 1) : ~StrLess(Lower(nodes[i + 1].name), Lower(nodes[i].name))

RECURSIVE OrderedByName(_)
OrderedByName(node) ==
    /\ IF dirs_first
       THEN /\ node.children = SelectKind(node.children, TRUE)
                               \o SelectKind(node.children, FALSE)
            /\ NonDecreasingByLowerName(SelectKind(node.children, TRUE))
            /\ NonDecreasingByLowerName(SelectKind(node.children, FALSE))
       ELSE NonDecreasingByLowerName(node.children)
    /\ \A i \in 1..Len(node.children) : OrderedByName(node.children[i])

\* C13: with sort_by = "name", in every directory: with dirs_first the
\* directories precede the files and each group is in non-decreasing order
\* of lower-cased name; without it the whole list is.
C13_OrderByName == (Sorted_tree /\ sort_by = "name") => OrderedByName(root_node)

\* Sorted by name without dirs_first: a lower-case name precedes an
\* upper-case one whose code points are smaller.
C13_Witness ==
    /\ Sorted_tree
    /\ sort_by = "name"
    /\ ~dirs_first
    /\ Len(root_node.children) = 2
    /\ root_node.children[1].name = <<"a">>
    /\ root_node.children[2].name = <<"Z">>

(***************************************************************************)
(* C14: normalisation of include and exclude patterns                      *)
(***************************************************************************)

\* A pattern that is the name of a dot-file or dot-directory: a dot, then
\* characters that are neither dots, slashes nor wildcards.
IsDotName(pattern) ==
    /\ Len(pattern) >= 2
    /\ pattern[1] = "."
    /\ \A i \in 2..Len(pattern) : pattern[i] \notin {".", "/", "\\", "*", "?", "["}

\* The pattern in effect keeps the characters of the one given, with the
\* recursive suffix when it names a directory.
KeptAsGiven(given, effective) ==
    effective \in {given, given \o Slash \o StarStar}

\* C14: normalisation removes only a leading "./" and a trailing "/": a
\* pattern that names a dot-file or dot-directory keeps its characters, and
\* an include list that is just the dot-name .env returns .env when it is
\* there and readable, and never returns env.
C14_DotNameKept ==
    pc = "done" =>
        /\ \A i \in 1..Len(arg_include) :
              IsDotName(arg_include[i]) => KeptAsGiven(arg_include[i], include[i])
        /\ arg_include = << sDotEnv >> =>
              /\ pEnv \notin Returned
              /\ (pDotEnv \in fs \ (faulted \cup rejected)) => pDotEnv \in Returned

(***************************************************************************)
(* C15: a rule anchored to the root and to directories                     *)
(***************************************************************************)

\* The gitignore rule is "/D/" for a plain name D.
IsRootDirRule(pattern) ==
    /\ Len(pattern) >= 3
    /\ StartsWith(pattern, Slash)
    /\ EndsWith(pattern, Slash)
    /\ IsPlainName(Drop(Take(pattern, Len(pattern) - 1), 1))

\* The path lies inside the top-level directory d.
InsideTopLevelDir(path, d) ==
    Len(Split(path)) >= 2 /\ Split(path)[1] = d

\* C15: a gitignore rule "/D/" matches every path inside the top-level
\* directory D and matches no path that is inside a directory named D only
\* below the top level.
C15_RootDirRule ==
    (m_fn = "gitignore" /\ IsRootDirRule(m_pattern)) =>
        LET d == Drop(Take(m_pattern, Len(m_pattern) - 1), 1)
        IN /\ InsideTopLevelDir(m_path, d) => m_result
           /\ (InsideDirNamed(m_path, d) /\ ~InsideTopLevelDir(m_path, d)) => ~m_result

====
